---- MODULE Spec2Model ----
(***************************************************************************)
(* Model of the codexi ledger engine (src/src/core/wallet/codexi.rs).      *)
(*                                                                         *)
(* The ledger is the vector Codexi::operations.  Amounts are f64 in the    *)
(* source; here an amount is an integer number of half-cents (0.005), so   *)
(* that round_to_2_dec has something to round.  A date text is abstracted  *)
(* to the day it denotes (1..MaxDate); the text 0 stands for any text that *)
(* chrono's "%Y-%m-%d" parser rejects.  The description of an operation is *)
(* not modelled.  An Err value is the message of the anyhow error the      *)
(* source returns; "ok" is Ok(()).  The archive directory is the set of     *)
(* closing dates that have an archive file; the content of a file is the   *)
(* `written` result of the close_period call that wrote it.                *)
(***************************************************************************)
EXTENDS Integers, Sequences, FiniteSets, TLC

\* ---------------------------------------------------------------- bounds
\* operations in the live ledger, days of the calendar, largest amount (in
\* half-cents) a caller passes
MaxLen == 2
MaxDate == 2
MaxAmount == 2

\* ----------------------------------------------------------- value types
SystemKind == {"Init", "Adjust", "Close"}
RegularKind == {"Transaction", "Fee", "Transfer", "Refund"}
OperationKind == SystemKind \cup RegularKind
OperationFlow == {"Debit", "Credit", "None"}

\* derived Ord of OperationKind: System(_) < Regular(_), then declaration order
KindRank(k) ==
    CASE k = "Init" -> 0
      [] k = "Adjust" -> 1
      [] k = "Close" -> 2
      [] k = "Transaction" -> 3
      [] k = "Fee" -> 4
      [] k = "Transfer" -> 5
      [] k = "Refund" -> 6

from_sign(sign) ==
    IF sign > 0 THEN "Credit"
    ELSE IF sign < 0 THEN "Debit"
    ELSE "None"

Abs(x) == IF x < 0 THEN -x ELSE x

\* (value * 100.0).round() / 100.0 on half-cents: f64::round rounds half
\* away from zero
round_to_2_dec(value) ==
    IF value >= 0 THEN 2 * ((value + 1) \div 2)
    ELSE -(2 * ((-value + 1) \div 2))

\* ------------------------------------------------------------- date texts
\* the date texts the explored calls pass, and the valid ones among them
DateTexts == 0..MaxDate
Dates == 1..MaxDate
\* NaiveDate::parse_from_str(date, "%Y-%m-%d") succeeds: the text is the
\* number of a day
ParseOk(text) == text >= 1

\* ------------------------------------------------------------- operations
Operation == [kind : OperationKind, flow : OperationFlow,
              date : Nat \ {0}, amount : Int]

OperationNew(kind, flow, dt, amount) ==
    [kind |-> kind, flow |-> flow, date |-> dt, amount |-> amount]

\* ----------------------------------------------------------- error values
Ok == "ok"
ErrInvalidDate == "Invalid Operation Date format"
ErrClosure == "Date conflict with period closure."
ErrAnchor == "Date conflict with system anchor."
ErrOutOfBounds == "Operation index is out of bounds."
ErrProtected == "Operation cannot be deleted: it is a protected system entry"
ErrNotEmpty == "The codexi is not empty. Cannot set initial balance."
ErrArchive == "archive write failed"

\* --------------------------------------------------------------- helpers

\* every amount accumulated, whatever the flow
RECURSIVE SumBy_anyflow(_, _)
SumBy_anyflow(ops, flow) ==
    IF ops = <<>> THEN 0
    ELSE Head(ops).amount + SumBy_anyflow(Tail(ops), flow)

RECURSIVE SumBy(_, _)
SumBy(ops, flow) ==
    IF ops = <<>> THEN 0
    ELSE (IF Head(ops).flow = flow THEN Head(ops).amount ELSE 0)
         + SumBy(Tail(ops), flow)

\* Codexi::balance with no filter
balance(ops) ==
    LET credit == SumBy(ops, "Credit")
        debit == SumBy(ops, "Debit")
        total == IF ops = <<>> THEN 0 ELSE credit - debit
    IN [credit |-> round_to_2_dec(credit),
        debit |-> round_to_2_dec(debit),
        total |-> round_to_2_dec(total)]

MaxOf(S) == CHOOSE m \in S : \A x \in S : x <= m

DatesOfKinds(ops, kinds) ==
    {ops[i].date : i \in {j \in 1..Len(ops) : ops[j].kind \in kinds}}

\* slice::sort_by_key / sort_by (stable) on an arbitrary vector; key[i] is the
\* sort key of s[i], elements of equal key keep their order
SortStable(s, key) ==
    LET Rank(i) ==
            Cardinality({j \in 1..Len(s) :
                key[j] < key[i] \/ (key[j] = key[i] /\ j <= i)})
    IN [p \in 1..Len(s) |-> s[CHOOSE i \in 1..Len(s) : Rank(i) = p]]

\* ------------------------------------------------------------- the ledger
VARIABLES operations, archives, last
vars == <<operations, archives, last>>

\* last: the last call made on the ledger and what it returned
Call(op, err) == [op |-> op, err |-> err]

\* ----------------------------------------------------------- add_operation

\* the closing date itself taken as still open
CloseConflict_strict(ops, d) ==
    LET closes == DatesOfKinds(ops, {"Close"})
    IN closes # {} /\ d < MaxOf(closes)

\* new_op_date <= latest Close date
CloseConflict(ops, d) ==
    LET closes == DatesOfKinds(ops, {"Close"})
    IN closes # {} /\ d <= MaxOf(closes)


\* the anchor's own date refused as well
AnchorConflict_nonstrict(ops, d) ==
    LET anchors == DatesOfKinds(ops, {"Init", "Adjust"})
    IN anchors # {} /\ d <= MaxOf(anchors)

\* the anchor check left out
AnchorConflict_absent(ops, d) == FALSE

\* new_op_date < latest Init/Adjust date
AnchorConflict(ops, d) ==
    LET anchors == DatesOfKinds(ops, {"Init", "Adjust"})
    IN anchors # {} /\ d < MaxOf(anchors)

\* the debit check against the unfiltered total
DebitRefused(ops, flow, amount) ==
    flow = "Debit" /\ balance(ops).total < amount

\* |o| o.date
DateKey(ops) == [i \in 1..Len(ops) |-> ops[i].date]

\* an unstable sort: the pushed operation put before those of its date
SortByDate_unstable(ops) ==
    SortStable(ops, [i \in 1..Len(ops) |->
                        2 * ops[i].date + (IF i = Len(ops) THEN 0 ELSE 1)])

\* a push with the sort left out
SortByDate_unsorted(ops) == ops

\* self.operations.sort_by_key(|o| o.date)
SortByDate(ops) == SortStable(ops, DateKey(ops))

add_operation(ops, kind, flow, text, amount) ==
    IF ~ParseOk(text) THEN [err |-> ErrInvalidDate, ops |-> ops]
    ELSE IF CloseConflict(ops, text) THEN [err |-> ErrClosure, ops |-> ops]
    ELSE IF AnchorConflict(ops, text) THEN [err |-> ErrAnchor, ops |-> ops]
    ELSE IF DebitRefused(ops, flow, amount)
         THEN [err |-> ErrAnchor, ops |-> ops]
    ELSE [err |-> Ok,
          ops |-> SortByDate(Append(ops, OperationNew(kind, flow, text, amount)))]

\* -------------------------------------------------------- delete_operation

\* Close anchors left unprotected
Protected_noclose(kind) == kind \in {"Init", "Adjust"}

Protected(kind) == kind \in {"Init", "Close", "Adjust"}


\* Vec::pop in place of Vec::remove(index)
Remove_last(ops, index) == SubSeq(ops, 1, Len(ops) - 1)

\* Vec::remove(index), index counted from 0
Remove(ops, index) ==
    SubSeq(ops, 1, index) \o SubSeq(ops, index + 2, Len(ops))

delete_operation(ops, index) ==
    IF index >= Len(ops) THEN [err |-> ErrOutOfBounds, ops |-> ops]
    ELSE IF Protected(ops[index + 1].kind)
         THEN [err |-> ErrProtected, ops |-> ops]
    ELSE [err |-> Ok, ops |-> Remove(ops, index)]

\* --------------------------------------------------------------- initialize

\* the emptiness test left out
initialize_unchecked(ops, amount, text) ==
    add_operation(ops, "Init", from_sign(amount), text, Abs(amount))

initialize(ops, amount, text) ==
    IF ops # <<>> THEN [err |-> ErrNotEmpty, ops |-> ops]
    ELSE add_operation(ops, "Init", from_sign(amount), text, Abs(amount))

\* ----------------------------------------------------------- adjust_balance

\* the two early returns left out
adjust_balance_always(ops, physical_balance, text) ==
    LET difference == physical_balance - balance(ops).total
    IN add_operation(ops, "Adjust", from_sign(difference), text,
                     Abs(difference))

adjust_balance(ops, physical_balance, text) ==
    IF physical_balance < 0 THEN [err |-> Ok, ops |-> ops]
    ELSE LET difference == physical_balance - balance(ops).total
         IN IF difference = 0 THEN [err |-> Ok, ops |-> ops]
            ELSE add_operation(ops, "Adjust", from_sign(difference), text,
                               Abs(difference))

\* ------------------------------------------------------------- close_period

\* a debit carried forward as a credit
ClosingStep_unsigned(acc, op) ==
    IF op.kind \in {"Init", "Close"}
    THEN IF op.flow = "None" THEN acc ELSE op.amount
    ELSE IF op.flow = "None" THEN acc ELSE acc + op.amount

\* one step of the partition loop on an operation dated <= close_date
ClosingStep(acc, op) ==
    IF op.kind \in {"Init", "Close"}
    THEN CASE op.flow = "Credit" -> op.amount
           [] op.flow = "Debit" -> -op.amount
           [] op.flow = "None" -> acc
    ELSE CASE op.flow = "Credit" -> acc + op.amount
           [] op.flow = "Debit" -> acc - op.amount
           [] op.flow = "None" -> acc

\* current_closing_balance after the loop
ClosingBalance(ops, close_date) ==
    LET F[i \in 0..Len(ops)] ==
            IF i = 0 THEN 0
            ELSE IF ops[i].date <= close_date THEN ClosingStep(F[i - 1], ops[i])
            ELSE F[i - 1]
    IN F[Len(ops)]

\* the operations of the closing date itself not archived
Archived_strict(ops, close_date) ==
    LET InPeriod(op) == op.date < close_date IN SelectSeq(ops, InPeriod)

Archived(ops, close_date) ==
    LET InPeriod(op) == op.date <= close_date IN SelectSeq(ops, InPeriod)


\* operations dated on the closing date kept in the live ledger
Retained_inclusive(ops, close_date) ==
    LET After(op) == op.date >= close_date IN SelectSeq(ops, After)

Retained(ops, close_date) ==
    LET After(op) == op.date > close_date IN SelectSeq(ops, After)

\* the "nothing to close" test
NothingToClose(archived, retained) ==
    archived = <<>>
    /\ \A i \in 1..Len(retained) : retained[i].kind \notin {"Init", "Close"}

\* a.date.cmp(&b.date), then a.kind.cmp(&b.kind), as one lexicographic key
DateKindKey(ops) ==
    [i \in 1..Len(ops) |->
        ops[i].date * Cardinality(OperationKind) + KindRank(ops[i].kind)]

\* the secondary comparison left out
SortByDateKind_dateonly(ops) == SortStable(ops, DateKey(ops))

\* the final sort_by: date, then kind
SortByDateKind(ops) == SortStable(ops, DateKindKey(ops))

\* write_fails: get_archive_path / bincode / fs::write returns an error
close_period(ops, text, write_fails) ==
    IF ~ParseOk(text)
    THEN [err |-> ErrInvalidDate, ops |-> ops, written |-> <<>>]
    ELSE LET archived == Archived(ops, text)
             retained == Retained(ops, text)
             net_solde == ClosingBalance(ops, text)
             new_op == OperationNew("Close", from_sign(net_solde), text,
                                    Abs(net_solde))
         IN IF NothingToClose(archived, retained)
            THEN [err |-> Ok, ops |-> retained, written |-> <<>>]
            ELSE IF archived # <<>> /\ write_fails
            THEN [err |-> ErrArchive, ops |-> retained, written |-> <<>>]
            ELSE [err |-> Ok,
                  ops |-> SortByDateKind(Append(retained, new_op)),
                  written |-> archived]

\* ------------------------------------------------------------------ actions
Init ==
    /\ operations = <<>>
    /\ archives = {}
    /\ last = Call("new", Ok)

Fits(ops) == Len(ops) <= MaxLen

\* fs::write(&archive_path, ...): one file per closing date, overwritten
write_archive(files, text, written) ==
    IF written # <<>> THEN files \cup {text} ELSE files

AddOperation(kinds, flows, amounts) ==
    \E kind \in kinds, flow \in flows, text \in DateTexts, amount \in amounts :
        LET r == add_operation(operations, kind, flow, text, amount)
        IN /\ Fits(r.ops)
           /\ operations' = r.ops
           /\ last' = Call("append", r.err)
           /\ UNCHANGED archives

DeleteOperation ==
    \E index \in 0..MaxLen :
        LET r == delete_operation(operations, index)
        IN /\ operations' = r.ops
           /\ last' = Call("delete", r.err)
           /\ UNCHANGED archives

Initialize ==
    \E amount \in (-MaxAmount)..MaxAmount, text \in DateTexts :
        LET r == initialize(operations, amount, text)
        IN /\ Fits(r.ops)
           /\ operations' = r.ops
           /\ last' = Call("initialize", r.err)
           /\ UNCHANGED archives

AdjustBalance ==
    \E physical_balance \in (-1)..MaxAmount, text \in DateTexts :
        LET r == adjust_balance(operations, physical_balance, text)
        IN /\ Fits(r.ops)
           /\ operations' = r.ops
           /\ last' = Call("adjust", r.err)
           /\ UNCHANGED archives

ClosePeriod ==
    \E text \in DateTexts, write_fails \in BOOLEAN :
        LET r == close_period(operations, text, write_fails)
        IN /\ Fits(r.ops)
           /\ operations' = r.ops
           /\ archives' = write_archive(archives, text, r.written)
           /\ last' = Call("close", r.err)

\* the calls main.rs makes: debit and credit add a Regular(Transaction)
Next ==
    \/ AddOperation({"Transaction"}, {"Debit", "Credit"}, 0..MaxAmount)
    \/ DeleteOperation
    \/ Initialize
    \/ AdjustBalance
    \/ ClosePeriod

Spec == Init /\ [][Next]_vars

\* add_operation called with any kind and any flow
NextApi ==
    \/ AddOperation(OperationKind, OperationFlow, {MaxAmount})
    \/ DeleteOperation
    \/ ClosePeriod

SpecApi == Init /\ [][NextApi]_vars

\* ------------------------------------------------------------ the queries
\* The calendar behind the day numbers: day 1 is 31 December of year 1 and
\* day 2 is 1 January of year 2; every year has 365 days.
DaysBefore ==
    <<0, 31, 59, 90, 120, 151, 181, 212, 243, 273, 304, 334, 365>>

\* NaiveDate::from_ymd_opt(y, m, dd), as a day number
DayNumber(y, m, dd) == (y - 2) * 365 + DaysBefore[m] + dd + 1

\* NaiveDate::year
YearOf(date) == 2 + ((date - 2) \div 365)

\* NaiveDate::month
MonthOf(date) ==
    LET day_of_year == (date - 2) % 365
    IN CHOOSE m \in 1..12 :
        DaysBefore[m] <= day_of_year /\ day_of_year < DaysBefore[m + 1]

\* An Option<String> argument of a query.  form tells what the text looks
\* like: "ymd" a valid YYYY-MM-DD date (the day d), "ym" two integers joined
\* by a dash (y-m, m any integer), "y" one integer, "bad" anything else,
\* "none" no argument at all.
NoText == [form |-> "none", y |-> 0, m |-> 0, d |-> 0]
BadText == [form |-> "bad", y |-> 0, m |-> 0, d |-> 0]
DayText(d) == [form |-> "ymd", y |-> YearOf(d), m |-> MonthOf(d), d |-> d]
MonthText(y, m) == [form |-> "ym", y |-> y, m |-> m, d |-> 0]
YearText(y) == [form |-> "y", y |-> y, m |-> 0, d |-> 0]

ErrDateRange == "Invalid date format. Expected YYYY-MM-DD, YYYY-MM, or YYYY."

\* first and last day of the month after month_str-01 parsed as a date
month_bounds(text) ==
    IF text.form = "ym" /\ text.m \in 1..12
    THEN [ok |-> TRUE,
          start |-> DayNumber(text.y, text.m, 1),
          end |-> DayNumber(text.y, text.m, 1)
                  + (DaysBefore[text.m + 1] - DaysBefore[text.m]) - 1]
    ELSE [ok |-> FALSE, start |-> 0, end |-> 0]

parse_flexible_date_range(text, is_start_date) ==
    IF text.form = "ymd" THEN [ok |-> TRUE, date |-> text.d]
    ELSE IF month_bounds(text).ok
    THEN [ok |-> TRUE,
          date |-> IF is_start_date THEN month_bounds(text).start
                   ELSE month_bounds(text).end]
    ELSE IF text.form = "y"
    THEN [ok |-> TRUE,
          date |-> IF is_start_date THEN DayNumber(text.y, 1, 1)
                   ELSE DayNumber(text.y, 12, 31)]
    ELSE [ok |-> FALSE, date |-> 0]

BalanceResult(err, credit, debit, total) ==
    [err |-> err, credit |-> credit, debit |-> debit, total |-> total]

\* the result returned on an invalid day or year: debit is the literal 0.9,
\* 180 half-cents
NoMatchResult == BalanceResult(Ok, 0, 180, 0)


\* the `to` bound taken as exclusive
PassesFilters_exclusive(op, from, to, day, month, year) ==
    /\ from # NoText => op.date >= parse_flexible_date_range(from, TRUE).date
    /\ to # NoText => op.date < parse_flexible_date_range(to, FALSE).date
    /\ day # NoText => op.date = day.d
    /\ month.form = "ym" =>
        YearOf(op.date) = month.y /\ MonthOf(op.date) = month.m
    /\ year # NoText => YearOf(op.date) = year.y

\* the month filter never applied
PassesFilters_nomonth(op, from, to, day, month, year) ==
    /\ from # NoText => op.date >= parse_flexible_date_range(from, TRUE).date
    /\ to # NoText => op.date <= parse_flexible_date_range(to, FALSE).date
    /\ day # NoText => op.date = day.d
    /\ year # NoText => YearOf(op.date) = year.y

\* the five `continue` tests of the loop of Codexi::balance
PassesFilters(op, from, to, day, month, year) ==
    /\ from # NoText => op.date >= parse_flexible_date_range(from, TRUE).date
    /\ to # NoText => op.date <= parse_flexible_date_range(to, FALSE).date
    /\ day # NoText => op.date = day.d
    /\ month.form = "ym" =>
        YearOf(op.date) = month.y /\ MonthOf(op.date) = month.m
    /\ year # NoText => YearOf(op.date) = year.y


\* anchors skipped by the accumulation
balance_filtered_regular(ops, from, to, day, month, year) ==
    LET Passes(op) ==
            /\ op.kind \in RegularKind
            /\ PassesFilters(op, from, to, day, month, year)
        passing == SelectSeq(ops, Passes)
        credit == SumBy(passing, "Credit")
        debit == SumBy(passing, "Debit")
    IN BalanceResult(Ok, round_to_2_dec(credit), round_to_2_dec(debit),
                     round_to_2_dec(credit - debit))

\* Codexi::balance with its five filters
balance_filtered(ops, from, to, day, month, year) ==
    IF from # NoText /\ ~parse_flexible_date_range(from, TRUE).ok
    THEN BalanceResult(ErrDateRange, 0, 0, 0)
    ELSE IF to # NoText /\ ~parse_flexible_date_range(to, FALSE).ok
    THEN BalanceResult(ErrDateRange, 0, 0, 0)
    ELSE IF day # NoText /\ day.form # "ymd" THEN NoMatchResult
    ELSE IF year # NoText /\ year.form # "y" THEN NoMatchResult
    ELSE LET Passes(op) == PassesFilters(op, from, to, day, month, year)
             passing == SelectSeq(ops, Passes)
             credit == SumBy(passing, "Credit")
             debit == SumBy(passing, "Debit")
         IN BalanceResult(Ok, round_to_2_dec(credit), round_to_2_dec(debit),
                          round_to_2_dec(credit - debit))

\* the report command: a balance query and what it returned
Query(r, from, to, day, month, year) ==
    [op |-> "balance", err |-> r.err, from |-> from, to |-> to, day |-> day,
     month |-> month, year |-> year,
     credit |-> r.credit, debit |-> r.debit, total |-> r.total]

DayTexts == {DayText(d) : d \in 1..MaxDate}
FromTexts == {NoText, BadText, MonthText(2, 1), YearText(2)} \cup DayTexts
ToTexts == {NoText, BadText, MonthText(1, 12), YearText(1)} \cup DayTexts
DayFilterTexts == {NoText, BadText} \cup DayTexts
MonthFilterTexts ==
    {NoText, BadText, MonthText(1, 12), MonthText(2, 1), MonthText(2, 13)}
YearFilterTexts == {NoText, BadText, YearText(1), YearText(2)}

\* A query leaves the ledger as it is and ends the process (main.rs runs one
\* command): the calls that can follow it are those that can follow the
\* state it was made in, so nothing is explored behind a query.
Balance ==
    /\ last.op # "balance"
    /\ \E from \in FromTexts, to \in ToTexts, day \in DayFilterTexts,
          month \in MonthFilterTexts, year \in YearFilterTexts :
        last' = Query(balance_filtered(operations, from, to, day, month, year),
                      from, to, day, month, year)
    /\ UNCHANGED <<operations, archives>>

\* ledgers of operations of any flow, then one balance query
NextQuery ==
    \/ /\ last.op # "balance"
       /\ AddOperation({"Init", "Transaction"}, OperationFlow, 1..MaxAmount)
    \/ Balance

SpecQuery == Init /\ [][NextQuery]_vars

\* ------------------------------------------------- the documented scenario
\* The calls of the scenario "initialize 1000.00 on 2024-07-01, credit 50.00
\* on 2024-07-05, debit 30.00 on 2024-07-10", made in any order and on any
\* of the three dates; amounts in half-cents.
ScenarioLen == 3
ScenarioDates ==
    {DayNumber(2024, 7, 1), DayNumber(2024, 7, 5), DayNumber(2024, 7, 10)}
Scenario == [initial |-> 200000, credit |-> 10000, debit |-> 6000]

ScenarioInitialize ==
    \E text \in ScenarioDates :
        LET r == initialize(operations, Scenario.initial, text)
        IN /\ last.op # "balance"
           /\ Len(r.ops) <= ScenarioLen
           /\ operations' = r.ops
           /\ last' = Call("initialize", r.err)
           /\ UNCHANGED archives

ScenarioAppend ==
    \E text \in ScenarioDates,
       call \in {<<"Credit", Scenario.credit>>, <<"Debit", Scenario.debit>>} :
        LET r == add_operation(operations, "Transaction", call[1], text,
                               call[2])
        IN /\ last.op # "balance"
           /\ Len(r.ops) <= ScenarioLen
           /\ operations' = r.ops
           /\ last' = Call("append", r.err)
           /\ UNCHANGED archives

ScenarioBalance ==
    /\ last.op # "balance"
    /\ last' = Query(balance_filtered(operations, NoText, NoText, NoText,
                                      NoText, NoText),
                     NoText, NoText, NoText, NoText, NoText)
    /\ UNCHANGED <<operations, archives>>

NextScenario == ScenarioInitialize \/ ScenarioAppend \/ ScenarioBalance

SpecScenario == Init /\ [][NextScenario]_vars

\* ------------------------------------------------------ enumeration names
\* A text that names an enumeration value is its letters (written here in
\* lower case), the case they are written in, and the number of spaces
\* around them.
LetterCases == {"lower", "title", "upper"}
Lower(letters) == [letters |-> letters, case |-> "lower", pad |-> 0]
Title(letters) == [letters |-> letters, case |-> "title", pad |-> 0]
to_ascii_lowercase(s) == [s EXCEPT !.case = "lower"]
trim(s) == [s EXCEPT !.pad = 0]

Parsed(v) == [ok |-> TRUE, value |-> v]
Unknown == [ok |-> FALSE, value |-> "Unknown"]

OperationFlow_as_str(v) ==
    CASE v = "Debit" -> Title("debit")
      [] v = "Credit" -> Title("credit")
      [] v = "None" -> Title("none")

OperationFlow_try_from_str(s) ==
    LET t == to_ascii_lowercase(trim(s))
    IN CASE t \in {Lower("debit"), Lower("db")} -> Parsed("Debit")
         [] t \in {Lower("credit"), Lower("cr")} -> Parsed("Credit")
         [] t \in {Lower("none"), Lower("no")} -> Parsed("None")
         [] OTHER -> Unknown

SystemKind_as_str(v) ==
    CASE v = "Init" -> Title("initialize")
      [] v = "Adjust" -> Title("adjust")
      [] v = "Close" -> Title("close")

SystemKind_try_from_str(s) ==
    LET t == to_ascii_lowercase(s)
    IN CASE t = Lower("init") -> Parsed("Init")
         [] t = Lower("adjust") -> Parsed("Adjust")
         [] t = Lower("close") -> Parsed("Close")
         [] OTHER -> Unknown

RegularKind_as_str(v) ==
    CASE v = "Transaction" -> Title("transaction")
      [] v = "Fee" -> Title("fee")
      [] v = "Transfer" -> Title("transfer")
      [] v = "Refund" -> Title("refund")

RegularKind_try_from_str(s) ==
    LET t == to_ascii_lowercase(s)
    IN CASE t \in {Lower("transaction"), Lower("trans")} ->
                Parsed("Transaction")
         [] t = Lower("fee") -> Parsed("Fee")
         [] t = Lower("transfer") -> Parsed("Transfer")
         [] t = Lower("refund") -> Parsed("Refund")
         [] OTHER -> Unknown

OperationKind_as_str(v) ==
    IF v \in SystemKind THEN SystemKind_as_str(v) ELSE RegularKind_as_str(v)

OperationKind_try_from_str(s) ==
    LET lower == to_ascii_lowercase(s)
    IN IF SystemKind_try_from_str(lower).ok
       THEN SystemKind_try_from_str(lower)
       ELSE IF RegularKind_try_from_str(lower).ok
       THEN RegularKind_try_from_str(lower)
       ELSE Unknown

Enumerations == {"OperationFlow", "SystemKind", "RegularKind", "OperationKind"}

ValuesOf(enum) ==
    CASE enum = "OperationFlow" -> OperationFlow
      [] enum = "SystemKind" -> SystemKind
      [] enum = "RegularKind" -> RegularKind
      [] enum = "OperationKind" -> OperationKind

as_str(enum, v) ==
    CASE enum = "OperationFlow" -> OperationFlow_as_str(v)
      [] enum = "SystemKind" -> SystemKind_as_str(v)
      [] enum = "RegularKind" -> RegularKind_as_str(v)
      [] enum = "OperationKind" -> OperationKind_as_str(v)

try_from(enum, s) ==
    CASE enum = "OperationFlow" -> OperationFlow_try_from_str(s)
      [] enum = "SystemKind" -> SystemKind_try_from_str(s)
      [] enum = "RegularKind" -> RegularKind_try_from_str(s)
      [] enum = "OperationKind" -> OperationKind_try_from_str(s)

\* the letters of every literal of the four parsers and display functions,
\* and one word that is none of them
NameLetters ==
    {"debit", "db", "credit", "cr", "none", "no", "init", "initialize",
     "adjust", "close", "transaction", "trans", "fee", "transfer", "refund",
     "deposit"}

NameTexts ==
    [letters : NameLetters, case : LetterCases, pad : {0, 1}]

\* one text handed to the parser of one enumeration
TryFrom ==
    \E enum \in Enumerations, text \in NameTexts :
        /\ last' = [op |-> "try_from", err |-> Ok, enum |-> enum,
                    text |-> text, result |-> try_from(enum, text)]
        /\ UNCHANGED <<operations, archives>>

NextNames == TryFrom

SpecNames == Init /\ [][NextNames]_vars

\* ----------------------------------------------------------------- resume
\* the initial value of the four latest_*_date strings
Placeholder == [form |-> "placeholder", y |-> 0, m |-> 0, d |-> 0]

\* op.date.format("%Y-%m-%d").to_string()
format_date(date) == DayText(date)

\* the string the loop leaves for a kind: that of the first operation of
\* the kind
latest_date_first(ops, kind) ==
    LET seen == {i \in 1..Len(ops) : ops[i].kind = kind}
    IN IF seen = {} THEN Placeholder
       ELSE format_date(ops[CHOOSE i \in seen : \A j \in seen : i <= j].date)

\* the string the loop of Codexi::resume leaves for a kind: assigned at
\* every operation of the kind, so that of the last one in stored order
latest_date(ops, kind) ==
    LET seen == {i \in 1..Len(ops) : ops[i].kind = kind}
    IN IF seen = {} THEN Placeholder
       ELSE format_date(ops[MaxOf(seen)].date)

\* the counter the loop of Codexi::resume keeps for a kind
nb_of_kind(ops, kind) ==
    Cardinality({i \in 1..Len(ops) : ops[i].kind = kind})

\* Codexi::resume
resume(ops) ==
    LET nb_transaction == nb_of_kind(ops, "Transaction")
        nb_init == nb_of_kind(ops, "Init")
        nb_adjust == nb_of_kind(ops, "Adjust")
        nb_close == nb_of_kind(ops, "Close")
    IN [current_nb_transaction |-> nb_transaction,
        current_nb_init |-> nb_init,
        current_nb_adjust |-> nb_adjust,
        current_nb_close |-> nb_close,
        current_nb_op |-> nb_transaction + nb_init + nb_adjust + nb_close,
        current_balance |-> balance(ops).total,
        latest_transaction_date |-> latest_date(ops, "Transaction"),
        latest_init_date |-> latest_date(ops, "Init"),
        latest_adjust_date |-> latest_date(ops, "Adjust"),
        latest_close_date |-> latest_date(ops, "Close")]

\* the report command asked for the resume; like every query it ends the
\* process and leaves the ledger as it is
Resume ==
    /\ last.op # "resume"
    /\ last' = [op |-> "resume", err |-> Ok, result |-> resume(operations)]
    /\ UNCHANGED <<operations, archives>>

NextResume ==
    \/ last.op # "resume" /\ Next
    \/ Resume

SpecResume == Init /\ [][NextResume]_vars

\* the resume of a ledger built by add_operation calls of any kind
NextResumeApi ==
    \/ last.op # "resume" /\ NextApi
    \/ Resume

SpecResumeApi == Init /\ [][NextResumeApi]_vars

\* ----------------------------------------------------------------- search
\* Option<f64>, Option<usize> and Option<String> arguments
Some(v) == [some |-> TRUE, value |-> v]
NoNumber == [some |-> FALSE, value |-> 0]
NoName == [some |-> FALSE, value |-> Lower("")]

\* every flow moves the balance up
calculate_new_balance_unsigned(cur_bal, op) ==
    IF op.flow = "None" THEN cur_bal ELSE cur_bal + op.amount

calculate_new_balance(cur_bal, op) ==
    CASE op.flow = "Credit" -> cur_bal + op.amount
      [] op.flow = "Debit" -> cur_bal - op.amount
      [] op.flow = "None" -> cur_bal

\* cur_bal started again from 0 at every operation
get_operations_with_balance_single(ops) ==
    [i \in 1..Len(ops) |->
        [op |-> ops[i], balance |-> calculate_new_balance(0, ops[i])]]

\* Codexi::get_operations_with_balance: every stored operation with the
\* balance running from 0 up to and including it
RECURSIVE get_operations_with_balance(_)
get_operations_with_balance(ops) ==
    IF ops = <<>> THEN <<>>
    ELSE LET out == get_operations_with_balance(SubSeq(ops, 1, Len(ops) - 1))
             cur_bal == IF out = <<>> THEN 0 ELSE out[Len(out)].balance
             op == ops[Len(ops)]
         IN Append(out, [op |-> op,
                         balance |-> calculate_new_balance(cur_bal, op)])

SearchItem(idx, op, bal) == [index |-> idx, op |-> op, balance |-> bal]

\* ops_map.iter().enumerate(): idx counts from 0
Enumerated(ops_map) ==
    [i \in 1..Len(ops_map) |->
        SearchItem(i - 1, ops_map[i].op, ops_map[i].balance)]

\* the day test left out
SearchPasses_noday(op, from, to, kind, flow, day, amount_min, amount_max) ==
    /\ from # NoText => op.date >= parse_flexible_date_range(from, TRUE).date
    /\ to # NoText => op.date <= parse_flexible_date_range(to, FALSE).date
    /\ flow.some => op.flow = OperationFlow_try_from_str(flow.value).value
    /\ kind.some => op.kind = OperationKind_try_from_str(kind.value).value
    /\ amount_min.some => op.amount >= amount_min.value
    /\ amount_max.some => op.amount <= amount_max.value

\* the `continue` tests of the loop of Codexi::search (no text is searched
\* for: descriptions are not part of the model)
SearchPasses(op, from, to, kind, flow, day, amount_min, amount_max) ==
    /\ from # NoText => op.date >= parse_flexible_date_range(from, TRUE).date
    /\ to # NoText => op.date <= parse_flexible_date_range(to, FALSE).date
    /\ flow.some => op.flow = OperationFlow_try_from_str(flow.value).value
    /\ kind.some => op.kind = OperationKind_try_from_str(kind.value).value
    /\ day # NoText => op.date = day.d
    /\ amount_min.some => op.amount >= amount_min.value
    /\ amount_max.some => op.amount <= amount_max.value

\* the first n kept
Latest_first(matched, latest) ==
    IF ~latest.some \/ Len(matched) <= latest.value THEN matched
    ELSE SubSeq(matched, 1, latest.value)

\* the truncation that ends Codexi::search
Latest(matched, latest) ==
    IF ~latest.some \/ Len(matched) <= latest.value THEN matched
    ELSE SubSeq(matched, Len(matched) - latest.value + 1, Len(matched))

SearchResult(err, hits) == [err |-> err, hits |-> hits]

\* Codexi::search, text = None
search(ops, from, to, kind, flow, day, amount_min, amount_max, latest) ==
    LET ops_map == get_operations_with_balance(ops)
    IN IF from # NoText /\ ~parse_flexible_date_range(from, TRUE).ok
       THEN SearchResult(ErrDateRange, <<>>)
       ELSE IF to # NoText /\ ~parse_flexible_date_range(to, FALSE).ok
       THEN SearchResult(ErrDateRange, <<>>)
       ELSE IF flow.some /\ ~OperationFlow_try_from_str(flow.value).ok
       THEN SearchResult(Ok, <<>>)
       ELSE IF kind.some /\ ~OperationKind_try_from_str(kind.value).ok
       THEN SearchResult(Ok, <<>>)
       ELSE IF day # NoText /\ day.form # "ymd"
       THEN SearchResult(Ok, <<>>)
       ELSE LET Passes(item) ==
                    SearchPasses(item.op, from, to, kind, flow, day,
                                 amount_min, amount_max)
                matched == SelectSeq(Enumerated(ops_map), Passes)
            IN SearchResult(Ok, Latest(matched, latest))

SearchFromTexts == {NoText, BadText, DayText(MaxDate)}
SearchToTexts == {NoText, DayText(1)}
SearchKindTexts ==
    {NoName, Some(Lower("trans")), Some(Title("initialize")),
     Some([letters |-> "init", case |-> "upper", pad |-> 0])}
SearchFlowTexts ==
    {NoName, Some([letters |-> "credit", case |-> "upper", pad |-> 1]),
     Some(Lower("db")), Some(Lower("deposit"))}
SearchAmountMins == {NoNumber, Some(MaxAmount)}
SearchAmountMaxs == {NoNumber, Some(1)}
SearchLatests == {NoNumber} \cup {Some(n) : n \in 0..MaxLen}

\* the search command: the call and what it returned; like every query it
\* ends the process and leaves the ledger as it is
Search ==
    /\ last.op # "search"
    /\ \E from \in SearchFromTexts, to \in SearchToTexts,
          kind \in SearchKindTexts, flow \in SearchFlowTexts,
          day \in DayFilterTexts, amount_min \in SearchAmountMins,
          amount_max \in SearchAmountMaxs, latest \in SearchLatests :
            LET r == search(operations, from, to, kind, flow, day,
                            amount_min, amount_max, latest)
            IN last' = [op |-> "search", err |-> r.err, from |-> from,
                        to |-> to, kind |-> kind, flow |-> flow,
                        day |-> day, amount_min |-> amount_min,
                        amount_max |-> amount_max, latest |-> latest,
                        hits |-> r.hits]
    /\ UNCHANGED <<operations, archives>>

NextSearch ==
    \/ /\ last.op # "search"
       /\ AddOperation({"Init", "Transaction"}, OperationFlow, 1..MaxAmount)
    \/ Search

SpecSearch == Init /\ [][NextSearch]_vars

\* ------------------------------------------------------- archive contents
\* fs::write(&archive_path, encoded_archive) with the content of the files
\* kept: the path is made of the closing date alone, so the file of a date
\* closed before is replaced
write_archive_file(files, text, written) ==
    IF written # <<>>
    THEN {f \in files : f.date # text} \cup {[date |-> text, ops |-> written]}
    ELSE files

\* close_period on an archive directory whose files are kept with their
\* content (in ClosePeriod only their dates are)
ClosePeriodFiles ==
    \E text \in DateTexts, write_fails \in BOOLEAN :
        LET r == close_period(operations, text, write_fails)
        IN /\ Fits(r.ops)
           /\ operations' = r.ops
           /\ archives' = write_archive_file(archives, text, r.written)
           /\ last' = Call("close", r.err)

NextFiles ==
    \/ AddOperation({"Transaction"}, {"Debit", "Credit"}, {MaxAmount})
    \/ DeleteOperation
    \/ ClosePeriodFiles

SpecFiles == Init /\ [][NextFiles]_vars

\* ------------------------------------------------------ the command line
\* One run of main.rs: Codexi::load, one mutation, then Codexi::save, which
\* the `?` after the mutation skips when it failed.  Here `operations` is
\* what codexi.dat holds between two runs.

\* the file written whatever the mutation returned
persist_always(loaded, r) == r.ops

\* codexi.dat after `codexi.<mutation>(..)?; codexi.save(&data_dir)?;`
persist(loaded, r) == IF r.err = Ok THEN r.ops ELSE loaded

CommandInit ==
    \E amount \in 0..MaxAmount, text \in DateTexts :
        LET r == initialize(operations, amount, text)
        IN /\ Fits(r.ops)
           /\ operations' = persist(operations, r)
           /\ last' = Call("initialize", r.err)
           /\ UNCHANGED archives

CommandDebitCredit ==
    \E flow \in {"Debit", "Credit"}, text \in DateTexts,
       amount \in 0..MaxAmount :
        LET r == add_operation(operations, "Transaction", flow, text, amount)
        IN /\ Fits(r.ops)
           /\ operations' = persist(operations, r)
           /\ last' = Call("append", r.err)
           /\ UNCHANGED archives

CommandRm ==
    \E index \in 0..MaxLen :
        LET r == delete_operation(operations, index)
        IN /\ operations' = persist(operations, r)
           /\ last' = Call("delete", r.err)
           /\ UNCHANGED archives

CommandAdjust ==
    \E physical_balance \in 0..MaxAmount, text \in DateTexts :
        LET r == adjust_balance(operations, physical_balance, text)
        IN /\ Fits(r.ops)
           /\ operations' = persist(operations, r)
           /\ last' = Call("adjust", r.err)
           /\ UNCHANGED archives

CommandClose ==
    \E text \in DateTexts, write_fails \in BOOLEAN :
        LET r == close_period(operations, text, write_fails)
        IN /\ Fits(r.ops)
           /\ operations' = persist(operations, r)
           /\ archives' = write_archive(archives, text, r.written)
           /\ last' = Call("close", r.err)

NextCommand ==
    \/ CommandInit
    \/ CommandDebitCredit
    \/ CommandRm
    \/ CommandAdjust
    \/ CommandClose

SpecCommand == Init /\ [][NextCommand]_vars

\* ================================================================= claims
IsSorted(ops) == \A i \in 1..(Len(ops) - 1) : ops[i].date <= ops[i + 1].date

DateConflict == {ErrClosure, ErrAnchor}

HasKind(ops, kinds) == \E i \in 1..Len(ops) : ops[i].kind \in kinds

\* d is on or before the latest date among the operations of these kinds
OnOrBefore(ops, kinds, d) ==
    \E i \in 1..Len(ops) : ops[i].kind \in kinds /\ d <= ops[i].date

\* d is strictly before the latest date among the operations of these kinds
StrictlyBefore(ops, kinds, d) ==
    \E i \in 1..Len(ops) : ops[i].kind \in kinds /\ d < ops[i].date

\* d is the latest date among the operations of these kinds
IsLatest(ops, kinds, d) ==
    OnOrBefore(ops, kinds, d) /\ ~StrictlyBefore(ops, kinds, d)

CountOf(ops, x) == Cardinality({i \in 1..Len(ops) : ops[i] = x})

SameBag(a, b) ==
    /\ Len(a) = Len(b)
    /\ \A i \in 1..Len(a) : CountOf(a, a[i]) = CountOf(b, a[i])

DatedUpTo(ops, d) == LET P(op) == op.date <= d IN SelectSeq(ops, P)
DatedAfter(ops, d) == LET P(op) == op.date > d IN SelectSeq(ops, P)

\* C1: in every state reached from the empty ledger by append, initialize,
\* adjustBalance, delete and closePeriod calls, the operation sequence is
\* sorted by date ascending.
C1_SortedByDate == IsSorted(operations)

C1_Witness ==
    /\ last = Call("append", Ok)
    /\ Len(operations) >= 2
    /\ operations[1].date < operations[Len(operations)].date

\* C2: appending any operation (any kind, any flow, any amount) dated on or
\* before the latest Close anchor of the ledger fails with a DateConflict
\* error and returns the operation sequence unchanged.
C2_ClosedPeriodRefused ==
    \A kind \in OperationKind, flow \in OperationFlow, d \in Dates,
       amount \in 0..MaxAmount :
        OnOrBefore(operations, {"Close"}, d) =>
            LET r == add_operation(operations, kind, flow, d, amount)
            IN r.err \in DateConflict /\ r.ops = operations

C2_Witness ==
    /\ last = Call("append", ErrClosure)
    /\ HasKind(operations, {"Close"})

\* C3: appending a Debit whose amount exceeds the unfiltered total balance
\* fails with an InsufficientFunds error, an error distinct from the
\* DateConflict errors, and returns the operation sequence unchanged.
C3_InsufficientFundsKind ==
    \A kind \in OperationKind, d \in Dates, amount \in 0..(MaxAmount + 1) :
        ( /\ ~OnOrBefore(operations, {"Close"}, d)
          /\ ~StrictlyBefore(operations, {"Init", "Adjust"}, d)
          /\ amount > balance(operations).total ) =>
            LET r == add_operation(operations, kind, "Debit", d, amount)
            IN r.err # Ok /\ r.err \notin DateConflict /\ r.ops = operations

\* C4: appending an operation dated strictly before the latest Init/Adjust
\* anchor fails with a DateConflict error and returns the ledger unchanged;
\* an operation dated exactly on that anchor date is accepted when the Close
\* check and the debit check let it through.
C4_AnchorBoundNonStrict ==
    \A kind \in OperationKind, flow \in OperationFlow, d \in Dates,
       amount \in 0..MaxAmount :
        LET r == add_operation(operations, kind, flow, d, amount)
        IN /\ StrictlyBefore(operations, {"Init", "Adjust"}, d) =>
                r.err \in DateConflict /\ r.ops = operations
           /\ ( /\ IsLatest(operations, {"Init", "Adjust"}, d)
                /\ ~OnOrBefore(operations, {"Close"}, d)
                /\ ~(flow = "Debit" /\ amount > balance(operations).total) ) =>
                r.err = Ok /\ Len(r.ops) = Len(operations) + 1

C4_Witness ==
    /\ last = Call("append", Ok)
    /\ \E i, j \in 1..Len(operations) :
        /\ i < j
        /\ operations[i].kind \in {"Init", "Adjust"}
        /\ IsLatest(operations, {"Init", "Adjust"}, operations[i].date)
        /\ operations[j].kind = "Transaction"
        /\ operations[j].date = operations[i].date

\* C5: closePeriod(d) on a ledger holding operations dated both on or before
\* d and after d succeeds; afterwards the only operation of the live ledger
\* dated on or before d is one Close anchor dated d, every operation dated
\* after d is still there, and the archive written for d is exactly the
\* sequence of the operations that were dated on or before d.
C5_ClosePartitions ==
    \A d \in Dates :
        (DatedUpTo(operations, d) # <<>> /\ DatedAfter(operations, d) # <<>>) =>
            LET r == close_period(operations, d, FALSE)
            IN /\ r.err = Ok
               /\ Len(DatedUpTo(r.ops, d)) = 1
               /\ DatedUpTo(r.ops, d)[1].kind = "Close"
               /\ DatedUpTo(r.ops, d)[1].date = d
               /\ SameBag(DatedAfter(r.ops, d), DatedAfter(operations, d))
               /\ r.written = DatedUpTo(operations, d)
               /\ d \in write_archive(archives, d, r.written)

C5_Witness ==
    /\ last = Call("close", Ok)
    /\ Len(operations) >= 2
    /\ operations[1].kind = "Close"
    /\ operations[1].date \in archives
    /\ operations[2].date > operations[1].date

SignedAmount(op) ==
    CASE op.flow = "Credit" -> op.amount
      [] op.flow = "Debit" -> -op.amount
      [] op.flow = "None" -> 0

\* the balance B of C6: every Init or Close entry resets it
RECURSIVE ScanReset(_)
ScanReset(ops) ==
    IF ops = <<>> THEN 0
    ELSE LET op == ops[Len(ops)]
         IN IF op.kind \in {"Init", "Close"} THEN SignedAmount(op)
            ELSE ScanReset(SubSeq(ops, 1, Len(ops) - 1)) + SignedAmount(op)

\* every operation closePeriod(d) leaves dated on or before d is a Close
\* anchor dated d that carries the balance B
CarriesForward(ops, d, B) ==
    LET r == close_period(ops, d, FALSE)
    IN \A i \in 1..Len(r.ops) :
        r.ops[i].date <= d =>
            /\ r.ops[i].kind = "Close"
            /\ r.ops[i].date = d
            /\ r.ops[i].amount = Abs(B)
            /\ (B > 0 => r.ops[i].flow = "Credit")
            /\ (B < 0 => r.ops[i].flow = "Debit")

\* C6: the Close anchor created by closePeriod(d) has amount |B|
\* and flow Credit if B > 0, Debit if B < 0, where B scans the operations
\* dated <= d in stored order from 0, every Init or Close entry resetting B
\* to its signed amount and every Adjust or Regular entry adding its signed
\* amount.
C6_ResetAtEveryAnchor ==
    \A d \in Dates : CarriesForward(operations, d, ScanReset(DatedUpTo(operations, d)))

\* C7: when append, delete or closePeriod returns a failure, the in-memory
\* operation sequence is either the sequence before the call or the fully
\* mutated result of the call, never a partial state.
C7_AllOrNothing ==
    [][(last'.op \in {"append", "delete", "close"} /\ last'.err # Ok) =>
        \/ operations' = operations
        \/ \E d \in Dates :
            operations' = close_period(operations, d, FALSE).ops]_vars

IsSystem(op) == op.kind \in SystemKind

\* C8: delete(index) fails and returns the ledger unchanged when index is
\* not below the length (OutOfBounds) or when the operation at index is an
\* Init, Adjust or Close anchor (ProtectedOperation); no delete call removes
\* a System operation.
C8_DeleteRefusals ==
    \A index \in 0..(MaxLen + 1) :
        LET r == delete_operation(operations, index)
        IN /\ index >= Len(operations) =>
                r.err = ErrOutOfBounds /\ r.ops = operations
           /\ (index < Len(operations) /\ IsSystem(operations[index + 1])) =>
                r.err = ErrProtected /\ r.ops = operations
           /\ SelectSeq(r.ops, IsSystem) = SelectSeq(operations, IsSystem)

C8_Witness ==
    /\ last = Call("delete", ErrProtected)
    /\ HasKind(operations, {"Close"})

\* C9: delete(index) on a Regular operation at a valid index succeeds: the
\* length decreases by one, the elements before index are unchanged and the
\* element formerly at position j > index is at position j - 1.
C9_DeleteShifts ==
    \A index \in 0..(MaxLen + 1) :
        (index < Len(operations) /\ ~IsSystem(operations[index + 1])) =>
            LET r == delete_operation(operations, index)
            IN /\ r.err = Ok
               /\ Len(r.ops) = Len(operations) - 1
               /\ \A j \in 1..index : r.ops[j] = operations[j]
               /\ \A j \in (index + 2)..Len(operations) :
                    r.ops[j - 1] = operations[j]

C9_Witness ==
    /\ last = Call("delete", Ok)
    /\ operations # <<>>

\* C10 as stated: no operation of the live ledger is dated strictly before
\* the latest Init/Adjust anchor of the ledger.
C10_NothingBeforeAnchor ==
    \A i \in 1..Len(operations) :
        ~StrictlyBefore(operations, {"Init", "Adjust"}, operations[i].date)

CountDated(ops, d) == Cardinality({i \in 1..Len(ops) : ops[i].date = d})

\* C10 amended: a successful append, initialize or adjustBalance never adds
\* an operation dated strictly before the latest Init/Adjust anchor the
\* ledger held before the call (operations already present when a later
\* anchor is added, and the Close anchor of a closePeriod, may pre-date it).
C10_NothingAddedBeforeAnchor ==
    [][(last'.op \in {"append", "initialize", "adjust"} /\ last'.err = Ok) =>
        \A d \in Dates :
            StrictlyBefore(operations, {"Init", "Adjust"}, d) =>
                CountDated(operations', d) = CountDated(operations, d)]_vars

C10_Witness ==
    /\ last = Call("append", Ok)
    /\ \E i, j \in 1..Len(operations) :
        /\ operations[i].kind = "Adjust"
        /\ IsLatest(operations, {"Init", "Adjust"}, operations[i].date)
        /\ operations[j].kind = "Transaction"
        /\ operations[j].date > operations[i].date

\* C11: no operation of the live ledger, other than the most recent Close
\* anchor itself, is dated on or before the latest Close anchor of the
\* ledger, whatever dates closePeriod was called with.
C11_NothingOnOrBeforeClose ==
    HasKind(operations, {"Close"}) =>
        Cardinality({i \in 1..Len(operations) :
            OnOrBefore(operations, {"Close"}, operations[i].date)}) = 1

\* C12: once the ledger holds an Init or Close anchor, every later state,
\* after successful and failed calls alike, holds one too; the ledger never
\* becomes empty again.
C12_AnchorStays ==
    [][HasKind(operations, {"Init", "Close"}) =>
        HasKind(operations', {"Init", "Close"})]_vars

\* C13: initialize(amount, date) with a valid date on the empty ledger
\* succeeds for every amount, positive, zero or negative, and leaves exactly
\* one Init operation dated date, of amount |amount| and of the flow given
\* by the sign of amount.
C13_InitializeAnyAmount ==
    operations = <<>> =>
        \A amount \in (-MaxAmount)..MaxAmount, d \in Dates :
            LET r == initialize(operations, amount, d)
            IN /\ r.err = Ok
               /\ Len(r.ops) = 1
               /\ r.ops[1].kind = "Init"
               /\ r.ops[1].date = d
               /\ r.ops[1].amount = Abs(amount)
               /\ (amount > 0 => r.ops[1].flow = "Credit")
               /\ (amount < 0 => r.ops[1].flow = "Debit")

\* C14: initialize on a ledger that holds at least one operation fails with
\* NotEmpty and leaves the ledger unchanged.
C14_InitializeNotEmpty ==
    operations # <<>> =>
        \A amount \in (-MaxAmount)..MaxAmount, text \in DateTexts :
            LET r == initialize(operations, amount, text)
            IN r.err = ErrNotEmpty /\ r.ops = operations

C14_Witness ==
    /\ last = Call("initialize", ErrNotEmpty)
    /\ operations # <<>>

\* C15: after adjustBalance(p, date) with p >= 0 returns success the
\* unfiltered total equals p; when the call changed the ledger it added
\* exactly one Adjust operation of amount |p - previous total|, of flow
\* Credit if p is above the previous total and Debit if below.
C15_AdjustReachesPhysical ==
    \A p \in 0..MaxAmount, text \in DateTexts :
        LET r == adjust_balance(operations, p, text)
            previous == balance(operations).total
        IN r.err = Ok =>
            /\ balance(r.ops).total = p
            /\ r.ops # operations =>
                /\ Len(r.ops) = Len(operations) + 1
                /\ \E i \in 1..Len(r.ops) :
                    /\ Remove(r.ops, i - 1) = operations
                    /\ r.ops[i].kind = "Adjust"
                    /\ r.ops[i].amount = Abs(p - previous)
                    /\ r.ops[i].flow =
                         (IF p > previous THEN "Credit" ELSE "Debit")

\* C16: adjustBalance returns success and leaves the ledger unchanged when
\* the physical balance is below zero and when it equals the current
\* unfiltered total, whatever the date text.
C16_AdjustNoOp ==
    \A p \in (-MaxAmount)..(MaxLen * MaxAmount), text \in DateTexts :
        (p < 0 \/ p = balance(operations).total) =>
            adjust_balance(operations, p, text) =
                [err |-> Ok, ops |-> operations]

C16_Witness ==
    /\ last = Call("adjust", Ok)
    /\ operations # <<>>
    /\ ~HasKind(operations, {"Adjust"})

RECURSIVE AmountOver(_, _)
AmountOver(ops, indices) ==
    IF indices = {} THEN 0
    ELSE LET i == CHOOSE i \in indices : TRUE
         IN ops[i].amount + AmountOver(ops, indices \ {i})

\* the sum of the amounts of the operations of one flow
FlowTotal(ops, flow) ==
    AmountOver(ops, {i \in 1..Len(ops) : ops[i].flow = flow})

Unfiltered(call) ==
    /\ call.op = "balance"
    /\ call.from = NoText /\ call.to = NoText /\ call.day = NoText
    /\ call.month = NoText /\ call.year = NoText

Reversed(ops) == [i \in 1..Len(ops) |-> ops[Len(ops) + 1 - i]]

\* C17 as stated: balance() with no filters returns credit = the sum of the
\* amounts of the Credit operations, debit = the sum of the amounts of the
\* Debit operations and total = credit - debit, whatever the order of the
\* operations; on the empty ledger all three are 0.
C17_UnfilteredSums ==
    Unfiltered(last) =>
        /\ last.err = Ok
        /\ last.credit = FlowTotal(operations, "Credit")
        /\ last.debit = FlowTotal(operations, "Debit")
        /\ last.total =
             FlowTotal(operations, "Credit") - FlowTotal(operations, "Debit")

\* C17 amended: balance() with no filters returns the sum of the Credit
\* amounts, the sum of the Debit amounts and their difference, each of the
\* three rounded to 2 decimals on its own, whatever the order of the
\* operations; operations of flow None count for nothing, anchors count like
\* any operation; on the empty ledger all three are 0.
C17_UnfilteredRoundedSums ==
    Unfiltered(last) =>
        LET credit == FlowTotal(operations, "Credit")
            debit == FlowTotal(operations, "Debit")
        IN /\ last.err = Ok
           /\ last.credit = round_to_2_dec(credit)
           /\ last.debit = round_to_2_dec(debit)
           /\ last.total = round_to_2_dec(credit - debit)
           /\ balance_filtered(Reversed(operations), NoText, NoText, NoText,
                               NoText, NoText)
                = BalanceResult(Ok, last.credit, last.debit, last.total)
           /\ operations = <<>> =>
                last.credit = 0 /\ last.debit = 0 /\ last.total = 0

C17_Witness ==
    /\ Unfiltered(last)
    /\ Len(operations) = 2
    /\ operations[1].kind = "Init"
    /\ operations[1].flow = "Credit"
    /\ operations[2].flow = "Debit"
    /\ last.total # last.credit - last.debit

\* C18: whenever balance returns a result, for every ledger and every
\* combination of filter arguments, unparsable day or year text included,
\* result.credit - result.debit = result.total.
C18_TotalIsDifference ==
    (last.op = "balance" /\ last.err = Ok) =>
        last.credit - last.debit = last.total

\* what a valid from / to text stands for, at its granularity
FirstDayOf(text) ==
    CASE text.form = "ymd" -> text.d
      [] text.form = "ym" -> DayNumber(text.y, text.m, 1)
      [] text.form = "y" -> DayNumber(text.y, 1, 1)

LastDayOf(text) ==
    CASE text.form = "ymd" -> text.d
      [] text.form = "ym" ->
            IF text.m = 12 THEN DayNumber(text.y + 1, 1, 1) - 1
            ELSE DayNumber(text.y, text.m + 1, 1) - 1
      [] text.form = "y" -> DayNumber(text.y + 1, 1, 1) - 1

ValidRangeText(text) ==
    \/ text.form \in {"ymd", "y"}
    \/ text.form = "ym" /\ text.m \in 1..12

\* every supplied filter of the call is a text of the form the filter wants
WellFormedFilters(call) ==
    /\ call.from # NoText => ValidRangeText(call.from)
    /\ call.to # NoText => ValidRangeText(call.to)
    /\ call.day # NoText => call.day.form = "ymd"
    /\ call.month # NoText => call.month.form = "ym"
    /\ call.year # NoText => call.year.form = "y"

\* the date satisfies every supplied filter of the call
Selected(date, call) ==
    /\ call.from # NoText => date >= FirstDayOf(call.from)
    /\ call.to # NoText => date <= LastDayOf(call.to)
    /\ call.day # NoText => date = call.day.d
    /\ call.month # NoText =>
        <<YearOf(date), MonthOf(date)>> = <<call.month.y, call.month.m>>
    /\ call.year # NoText => YearOf(date) = call.year.y

\* C20: balance(from, to, day, month, year) accumulates exactly the
\* operations that satisfy every supplied filter at once (from and to
\* inclusive, day equal, year and month of the month filter equal, year
\* equal): the result is the unfiltered balance of those operations, and it
\* is 0, 0, 0 when no operation satisfies them.
C20_FiltersConjoined ==
    (last.op = "balance" /\ WellFormedFilters(last)) =>
        LET Chosen(op) == Selected(op.date, last)
            chosen == SelectSeq(operations, Chosen)
        IN /\ last.err = Ok
           /\ BalanceResult(Ok, last.credit, last.debit, last.total)
                = balance_filtered(chosen, NoText, NoText, NoText, NoText,
                                   NoText)
           /\ chosen = <<>> =>
                last.credit = 0 /\ last.debit = 0 /\ last.total = 0

C20_Witness ==
    /\ last.op = "balance"
    /\ WellFormedFilters(last)
    /\ last.to # NoText /\ last.month # NoText /\ last.year # NoText
    /\ Len(operations) = 2
    /\ Selected(operations[1].date, last)
    /\ ~Selected(operations[2].date, last)
    /\ operations[1].date = LastDayOf(last.to)
    /\ last.credit > 0

\* the ledger after initialize 1000.00 on 2024-07-01, Credit 50.00 on
\* 2024-07-05 and Debit 30.00 on 2024-07-10
ScenarioLedger ==
    << OperationNew("Init", "Credit", DayNumber(2024, 7, 1), Scenario.initial),
       OperationNew("Transaction", "Credit", DayNumber(2024, 7, 5),
                    Scenario.credit),
       OperationNew("Transaction", "Debit", DayNumber(2024, 7, 10),
                    Scenario.debit) >>

\* C19 as stated: on that ledger balance() with no filters returns credit
\* 50.00, debit 30.00 and total 1020.00.
C19_ScenarioCreditWithoutInit ==
    (operations = ScenarioLedger /\ Unfiltered(last)) =>
        /\ last.err = Ok
        /\ last.credit = Scenario.credit
        /\ last.debit = Scenario.debit
        /\ last.total = Scenario.initial + Scenario.credit - Scenario.debit

\* C19 amended: on that ledger balance() with no filters returns credit
\* 1050.00 (the Init anchor is a Credit operation and counts in credit),
\* debit 30.00 and total 1020.00.
C19_ScenarioCreditWithInit ==
    (operations = ScenarioLedger /\ Unfiltered(last)) =>
        /\ last.err = Ok
        /\ last.credit = Scenario.initial + Scenario.credit
        /\ last.debit = Scenario.debit
        /\ last.total = Scenario.initial + Scenario.credit - Scenario.debit

C19_Witness == operations = ScenarioLedger /\ Unfiltered(last)

\* the from and to arguments of the call are absent or parse
RangeParses(call) ==
    /\ call.from # NoText => ValidRangeText(call.from)
    /\ call.to # NoText => ValidRangeText(call.to)

\* C21: balance called with a day that is not a valid YYYY-MM-DD date, or
\* with a year that does not parse as an integer, returns success with
\* credit = 0, debit = 0 and total = 0, whatever the ledger contains.
C21_InvalidDayOrYearAllZero ==
    ( /\ last.op = "balance"
      /\ RangeParses(last)
      /\ \/ last.day # NoText /\ last.day.form # "ymd"
         \/ last.year # NoText /\ last.year.form # "y" ) =>
        /\ last.err = Ok
        /\ last.credit = 0 /\ last.debit = 0 /\ last.total = 0

\* the text does not denote a calendar month in YYYY-MM form
MalformedMonth(text) ==
    text # NoText /\ ~(text.form = "ym" /\ text.m \in 1..12)

\* C22 as stated: balance called with a month text that does not denote a
\* calendar month in YYYY-MM form returns exactly the result of the same
\* call without the month argument.
C22_MalformedMonthDropped ==
    (last.op = "balance" /\ MalformedMonth(last.month)) =>
        BalanceResult(last.err, last.credit, last.debit, last.total)
            = balance_filtered(operations, last.from, last.to, last.day,
                               NoText, last.year)

\* C22: a month text that is not two integers joined by one hyphen is
\* dropped, the result being that of the same call without the month; a
\* text of two integers whose month number is outside 1..12 is kept as a
\* filter that no operation passes, the result being that of the same call
\* on the empty ledger.
C22_UnparsedMonthDropped ==
    (last.op = "balance" /\ MalformedMonth(last.month)) =>
        BalanceResult(last.err, last.credit, last.debit, last.total)
            = balance_filtered(IF last.month.form = "ym" THEN <<>>
                               ELSE operations,
                               last.from, last.to, last.day, NoText,
                               last.year)

C22_Witness ==
    /\ last.op = "balance"
    /\ last.month = MonthText(2, 13)
    /\ last.err = Ok /\ last.credit = 0
    /\ balance_filtered(operations, last.from, last.to, last.day, NoText,
                        last.year).credit > 0

\* the text is the display string of the value, in any letter case
IsDisplayString(text, enum, v) ==
    to_ascii_lowercase(text) = to_ascii_lowercase(as_str(enum, v))

\* C29: for every value v of OperationFlow, SystemKind, RegularKind and
\* OperationKind, parsing the canonical display string of v, in any letter
\* case, yields v.
C29_DisplayStringParses ==
    last.op = "try_from" =>
        \A v \in ValuesOf(last.enum) :
            IsDisplayString(last.text, last.enum, v) =>
                last.result = Parsed(v)

CountKind(ops, kind) == Cardinality({i \in 1..Len(ops) : ops[i].kind = kind})

\* the formatted maximum date of the operations of a kind, the placeholder
\* when there is none
MaxDateText(ops, kind) ==
    IF HasKind(ops, {kind}) THEN DayText(MaxOf(DatesOfKinds(ops, {kind})))
    ELSE Placeholder

\* C26: in every ledger state reachable by mutations, resume returns for
\* each of Transaction, Init, Adjust and Close the number of operations of
\* that kind and the maximum date among them (the placeholder when the kind
\* does not occur), together with the unfiltered total balance.
C26_ResumeCountsAndLatest ==
    last.op = "resume" =>
        LET r == last.result
        IN /\ r.current_nb_transaction = CountKind(operations, "Transaction")
           /\ r.current_nb_init = CountKind(operations, "Init")
           /\ r.current_nb_adjust = CountKind(operations, "Adjust")
           /\ r.current_nb_close = CountKind(operations, "Close")
           /\ r.latest_transaction_date
                = MaxDateText(operations, "Transaction")
           /\ r.latest_init_date = MaxDateText(operations, "Init")
           /\ r.latest_adjust_date = MaxDateText(operations, "Adjust")
           /\ r.latest_close_date = MaxDateText(operations, "Close")
           /\ r.current_balance
                = round_to_2_dec(FlowTotal(operations, "Credit")
                                 - FlowTotal(operations, "Debit"))

\* a resume of a ledger holding two transactions of different dates, and no
\* adjustment
C26_Witness ==
    /\ last.op = "resume"
    /\ last.result.current_nb_transaction = 2
    /\ operations[1].date # operations[2].date
    /\ last.result.latest_transaction_date = DayText(MaxDate)
    /\ last.result.latest_adjust_date = Placeholder
    /\ last.result.current_balance # 0

\* the signed sum of the first n operations
RECURSIVE SignedPrefix(_, _)
SignedPrefix(ops, n) ==
    IF n = 0 THEN 0 ELSE SignedPrefix(ops, n - 1) + SignedAmount(ops[n])

\* C23: every hit of a search, whatever the filters, carries the operation
\* stored at position hit.index of the full sequence and the signed sum of
\* the operations at positions 0..hit.index of the full sequence, and the
\* hits come in increasing index order.
C23_HitsPointIntoLedger ==
    (last.op = "search" /\ last.err = Ok) =>
        \A p \in 1..Len(last.hits) :
            LET h == last.hits[p]
            IN /\ h.index \in 0..(Len(operations) - 1)
               /\ h.op = operations[h.index + 1]
               /\ h.balance = SignedPrefix(operations, h.index + 1)
               /\ p > 1 => last.hits[p - 1].index < h.index

\* a filtered search whose only hit is the second operation, after a debit
C23_Witness ==
    /\ last.op = "search"
    /\ Len(last.hits) = 1
    /\ last.hits[1].index = 1
    /\ operations[1].flow = "Debit"
    /\ last.hits[1].balance # operations[2].amount
    /\ last.latest = NoNumber

MinOf(a, b) == IF a <= b THEN a ELSE b

\* what the same search returns when no latest is given
Unlimited(call) ==
    search(operations, call.from, call.to, call.kind, call.flow, call.day,
           call.amount_min, call.amount_max, NoNumber).hits

\* C24: search with latest = N returns the last min(N, m) of the m matching
\* hits in their matched order: all of them when N >= m, none when N = 0.
C24_LatestKeepsSuffix ==
    (last.op = "search" /\ last.err = Ok /\ last.latest.some) =>
        LET all == Unlimited(last)
            m == Len(all)
            k == MinOf(last.latest.value, m)
        IN /\ Len(last.hits) = k
           /\ \A p \in 1..k : last.hits[p] = all[m - k + p]
           /\ last.latest.value >= m => last.hits = all
           /\ last.latest.value = 0 => last.hits = <<>>

\* latest = 1 on two matching operations
C24_Witness ==
    /\ last.op = "search"
    /\ last.latest = Some(1)
    /\ Len(Unlimited(last)) = 2
    /\ last.hits = <<Unlimited(last)[2]>>
    /\ Unlimited(last)[1] # Unlimited(last)[2]

\* the flow or kind text is not recognised, or the day is not a date, or
\* it is the date of no operation
NothingToFind(call) ==
    \/ call.flow.some /\ ~OperationFlow_try_from_str(call.flow.value).ok
    \/ call.kind.some /\ ~OperationKind_try_from_str(call.kind.value).ok
    \/ call.day # NoText /\ call.day.form # "ymd"
    \/ /\ call.day.form = "ymd"
       /\ \A i \in 1..Len(operations) : operations[i].date # call.day.d

\* C25 as stated: search returns success with an empty sequence, never an
\* error, when the flow or kind text is not recognised, when the day text
\* is not a valid date, or when a valid day matches no operation.
C25_EmptyNeverError ==
    (last.op = "search" /\ NothingToFind(last)) =>
        last.err = Ok /\ last.hits = <<>>

\* C25: with from and to absent or parseable, search returns success with
\* an empty sequence when the flow or kind text is not recognised, when the
\* day text is not a valid date, or when a valid day matches no operation;
\* an unparseable from or to is reported first, as the date range error.
C25_EmptyUnlessRangeError ==
    (last.op = "search" /\ NothingToFind(last)) =>
        IF RangeParses(last)
        THEN last.err = Ok /\ last.hits = <<>>
        ELSE last.err = ErrDateRange

\* a search by a valid day on a ledger that holds no operation of that day
C25_Witness ==
    /\ last.op = "search"
    /\ last.day = DayText(1)
    /\ last.from = NoText /\ last.to = NoText
    /\ last.flow = NoName /\ last.kind = NoName
    /\ last.amount_min = NoNumber /\ last.amount_max = NoNumber
    /\ Len(operations) = MaxLen
    /\ last.err = Ok /\ last.hits = <<>>

\* C27: ledger logic never chooses flow None: every operation created by
\* initialize, adjustBalance or closePeriod (the only source of system
\* operations in the calls of main.rs) has flow Credit or Debit, for every
\* input amount and every closing balance, zero included.
C27_SystemFlowNeverNone ==
    \A i \in 1..Len(operations) :
        operations[i].kind \in SystemKind => operations[i].flow # "None"

\* C28: every stored operation has amount >= 0, whatever amount argument
\* append is called with.
C28_AmountsNonNegative ==
    /\ \A i \in 1..Len(operations) : operations[i].amount >= 0
    /\ \A kind \in OperationKind, flow \in OperationFlow, text \in Dates,
          amount \in (-MaxAmount)..MaxAmount :
            LET r == add_operation(operations, kind, flow, text, amount)
            IN \A i \in 1..Len(r.ops) : r.ops[i].amount >= 0

C31_TotalStaysNonNegative ==
    [][(last'.err = Ok /\ balance(operations).total >= 0) =>
        balance(operations').total >= 0]_vars

\* the operations a ledger or the archive files hold
Held(ops, files) ==
    {ops[i] : i \in 1..Len(ops)}
        \cup UNION {{f.ops[i] : i \in 1..Len(f.ops)} : f \in files}

\* C32: closing never loses history: every operation that the live ledger
\* or an archive holds before a successful closePeriod is in the live
\* ledger or in the contents of some archive after it, also when the close
\* date is one that was closed before.
C32_CloseKeepsHistory ==
    [][(last'.op = "close" /\ last'.err = Ok) =>
        Held(operations, archives) \subseteq Held(operations', archives')]_vars

\* an append of this flow and amount dated x is rejected with a date
\* conflict
Rejected(ops, flow, x, amount) ==
    add_operation(ops, "Transaction", flow, x, amount).err \in DateConflict

\* C33: closed periods stay closed: once an append dated x is rejected with
\* a date conflict, the same append is rejected after any further
\* successful append, delete, adjustBalance or closePeriod call.
C33_RejectedStaysRejected ==
    [][last'.err = Ok =>
        \A x \in Dates, flow \in {"Debit", "Credit"}, amount \in 0..MaxAmount :
            Rejected(operations, flow, x, amount) =>
                Rejected(operations', flow, x, amount)]_vars

\* C34: closePeriod(d) on a ledger in which no operation is dated on or
\* before d is a no-op success: the operation sequence is unchanged, no
\* Close anchor is added and no archive is written, whether or not the
\* ledger holds an Init or Close anchor dated after d.
C34_NothingToCloseIsNoOp ==
    \A d \in Dates, write_fails \in BOOLEAN :
        DatedUpTo(operations, d) = <<>> =>
            close_period(operations, d, write_fails)
                = [err |-> Ok, ops |-> operations, written |-> <<>>]

\* the declared order of the kinds
DeclaredKinds ==
    <<"Init", "Adjust", "Close", "Transaction", "Fee", "Transfer", "Refund">>

KindPosition(kind) == CHOOSE p \in 1..Len(DeclaredKinds) : DeclaredKinds[p] = kind

SortedByDateThenKind(ops) ==
    \A i \in 1..Len(ops), j \in 1..Len(ops) :
        i < j =>
            \/ ops[i].date < ops[j].date
            \/ /\ ops[i].date = ops[j].date
               /\ KindPosition(ops[i].kind) <= KindPosition(ops[j].kind)

\* the operations of one date and of the given kinds, in stored order
OfDateAndKinds(ops, x, kinds) ==
    LET P(op) == op.date = x /\ op.kind \in kinds IN SelectSeq(ops, P)

\* the operation an append added: the last of its date in the new ledger
Added(after, x) ==
    LET same == OfDateAndKinds(after, x, OperationKind) IN same[Len(same)]

\* C35: right after a closePeriod that creates an anchor the live ledger is
\* sorted by date and, within a date, in the declared kind order, the
\* operations of equal date and kind keeping their previous relative
\* order; an append sorts by date only and leaves the operations of every
\* date in the order they had, the new one after them.
C35_CloseSortsByDateThenKind ==
    /\ \A d \in Dates :
        LET r == close_period(operations, d, FALSE)
        IN (r.err = Ok /\ r.ops # DatedAfter(operations, d)) =>
            /\ SortedByDateThenKind(r.ops)
            /\ \A x \in Dates, kind \in OperationKind :
                x > d => OfDateAndKinds(r.ops, x, {kind})
                            = OfDateAndKinds(operations, x, {kind})
    /\ \A kind \in OperationKind, flow \in OperationFlow, text \in Dates :
        LET r == add_operation(operations, kind, flow, text, MaxAmount)
        IN r.err = Ok =>
            /\ IsSorted(r.ops)
            /\ \A x \in Dates :
                OfDateAndKinds(r.ops, x, OperationKind)
                    = IF x = text
                      THEN Append(OfDateAndKinds(operations, x, OperationKind),
                                  Added(r.ops, text))
                      ELSE OfDateAndKinds(operations, x, OperationKind)

\* a ledger holding a transaction before an Init of the same day, as append
\* left them, which a close of the day before puts in kind order
C35_Witness ==
    /\ Len(operations) = 2
    /\ operations[1].date = operations[2].date
    /\ operations[1].kind = "Transaction" /\ operations[2].kind = "Init"
    /\ last = Call("append", Ok)
    /\ \E d \in Dates :
        LET r == close_period(operations, d, FALSE)
        IN /\ r.err = Ok
           /\ r.ops = <<r.ops[1], operations[2], operations[1]>>
           /\ r.ops[1].kind = "Close"

\* `after` is `before` with one operation put in at position p
InsertedAt(before, after, p) ==
    /\ Len(after) = Len(before) + 1
    /\ \A i \in 1..(p - 1) : after[i] = before[i]
    /\ \A i \in p..Len(before) : after[i + 1] = before[i]

C37_CloseIdempotent ==
    \A text \in DateTexts :
        LET first == close_period(operations, text, FALSE)
            second == close_period(first.ops, text, FALSE)
        IN second.err = first.err /\ second.ops = first.ops

\* a ledger with a period to close whose close leaves an anchor carrying a
\* balance and an operation after it
C37_Witness ==
    /\ Len(operations) = 2
    /\ operations[1].date < operations[2].date
    /\ operations[1].flow = "Credit" /\ operations[1].amount > 0
    /\ LET first == close_period(operations, operations[1].date, FALSE)
       IN /\ first.err = Ok
          /\ first.ops # operations
          /\ first.ops[1].kind = "Close"
          /\ first.ops[2] = operations[2]
          /\ close_period(first.ops, operations[1].date, FALSE).written
                = <<first.ops[1]>>

\* a search call with no filter and no limit
UnfilteredSearch(call) ==
    /\ call.op = "search"
    /\ call.from = NoText /\ call.to = NoText /\ call.day = NoText
    /\ call.kind = NoName /\ call.flow = NoName
    /\ call.amount_min = NoNumber /\ call.amount_max = NoNumber
    /\ call.latest = NoNumber

\* C38 as stated: on every non-empty ledger the running balance of the
\* last hit of an unfiltered search equals the total that balance() with
\* no filters returns.
C38_RunningBalanceIsTotal ==
    (UnfilteredSearch(last) /\ operations # <<>>) =>
        /\ Len(last.hits) = Len(operations)
        /\ last.hits[Len(last.hits)].balance = balance(operations).total

\* C38: on every non-empty ledger the total that balance() with no filters
\* returns is the running balance of the last hit of an unfiltered search
\* rounded to 2 decimals; the running balance itself is not rounded.
C38_TotalIsRoundedRunningBalance ==
    (UnfilteredSearch(last) /\ operations # <<>>) =>
        /\ Len(last.hits) = Len(operations)
        /\ balance(operations).total
            = round_to_2_dec(last.hits[Len(last.hits)].balance)

\* an unfiltered search of a two-operation ledger whose running balance is
\* not a whole number of cents
C38_Witness ==
    /\ UnfilteredSearch(last)
    /\ Len(operations) = 2
    /\ operations[2].flow = "Debit"
    /\ last.hits[2].balance # last.hits[1].balance
    /\ last.hits[2].balance # balance(operations).total

\* C39: the total operation count that resume reports, current_nb_op,
\* equals the number of operations in the ledger, whatever the kinds of the
\* operations, Fee, Transfer and Refund included.
C39_ResumeCountsAll ==
    last.op = "resume" => last.result.current_nb_op = Len(operations)

\* C40: in each command-line run the ledger is written back only after the
\* mutation (init, debit, credit, rm, adjust, close) returned success: when
\* the mutation fails, the persisted ledger is left exactly as it was
\* loaded.
C40_FailedCommandKeepsFile ==
    [][last'.err # Ok => operations' = operations]_vars

\* a close whose archive could not be written has left the file with the
\* operations it was asked to close
C40_Witness ==
    /\ last = Call("close", ErrArchive)
    /\ Len(operations) = MaxLen
    /\ operations[1].date < operations[2].date
    /\ archives = {}

====
